---- MODULE Spec2Model ----
(***************************************************************************)
(* WeightPilot UI: the Action tab's result cache (tabs/action.py), the     *)
(* backend client (services/agent_api.py) and the handlers that use them:  *)
(* the buttons of the Action tab, of its recipe section (tabs/recipe.py)   *)
(* and of the coach tab (tabs/coach.py).                                   *)
(*                                                                         *)
(* Python values are tagged records [t, v]: None, bool, number, str, list  *)
(* and dict (a dict is a function from its keys to values, so equality is  *)
(* Python's: independent of key order).  A file or an HTTP body is a       *)
(* sequence of JSON tokens; json.dump and json.load are a serializer and a *)
(* recursive-descent parser over such sequences.  Numbers are integers:    *)
(* a float prints and reads back exactly.                                  *)
(***************************************************************************)
EXTENDS Integers, Sequences, FiniteSets, TLC

\* ------------------------------------------------------------- bounds
\* time.time() is read from 1..MaxTime.
MaxTime == 1

\* ------------------------------------------------------ Python values
None == [t |-> "null", v |-> "null"]
PyBool(b) == [t |-> "bool", v |-> b]
PyNum(n) == [t |-> "num", v |-> n]
PyStr(s) == [t |-> "str", v |-> s]
PyList(s) == [t |-> "list", v |-> s]
PyDict(f) == [t |-> "dict", v |-> f]
EmptyMap == [k \in {} |-> None]

\* x[key]: KeyError for a missing key, TypeError on a value that is no dict
GetItem(x, key) ==
  IF x.t # "dict" THEN [exc |-> "TypeError", val |-> None]
  ELSE IF key \notin DOMAIN x.v THEN [exc |-> "KeyError", val |-> None]
  ELSE [exc |-> "none", val |-> x.v[key]]

\* the truth value of a Python object (`if x`, `x or y`, `x and y`)
Truthy(x) ==
  CASE x.t = "null" -> FALSE
    [] x.t = "bool" -> x.v
    [] x.t = "num" -> x.v # 0
    [] x.t = "str" -> x.v # ""
    [] x.t = "list" -> Len(x.v) # 0
    [] x.t = "dict" -> DOMAIN x.v # {}

\* x or y
Or(x, y) == IF Truthy(x) THEN x ELSE y

\* d[k] = x
Put(s, k, x) == [y \in DOMAIN s \cup {k} |-> IF y = k THEN x ELSE s[y]]

\* d.setdefault(k, x)
SetDefault(s, k, x) == IF k \in DOMAIN s THEN s ELSE Put(s, k, x)

\* dict.get(key) with the default None; on a non-dict the attribute is missing.
DictGet(x, key) ==
  IF x.t # "dict" THEN [exc |-> "AttributeError", val |-> None]
  ELSE [exc |-> "none", val |-> IF key \in DOMAIN x.v THEN x.v[key] ELSE None]

\* ------------------------------------------------------------ JSON text
Punct(c) == [t |-> "punct", v |-> c]
Lit(w) == [t |-> "lit", v |-> w]
NumTok(n) == [t |-> "number", v |-> n]
StrTok(s) == [t |-> "string", v |-> s]
\* what is left of a token cut in the middle, or bytes that are no JSON
BadTok == [t |-> "bad", v |-> "bad"]

\* The keys that occur in the documents of the model, in the order they are
\* written.
KeyOrder ==
  <<"ts", "data", "targets", "calorie_target", "plan_markdown", "series",
    "explanation_md", "detail", "suggestions", "name", "one_liner", "servings",
    "steps", "public_key", "assistant_id", "profile", "preferences", "age",
    "sex_assigned_at_birth", "gender_identity", "height_cm", "weight_kg",
    "activity_level", "goal", "goal_rate", "diet", "allergies", "medical_flags",
    "cuisines", "race_ethnicity", "extra_burn_kcal_per_day", "weeks",
    "ingredients", "cuisine", "count", "dish">>

KeysOf(f) == SelectSeq(KeyOrder, LAMBDA k : k \in DOMAIN f)

RECURSIVE json_dumps(_)
RECURSIVE DumpItems(_)
RECURSIVE DumpMembers(_, _)

DumpItems(s) ==
  IF s = <<>> THEN <<>>
  ELSE json_dumps(Head(s))
         \o (IF Len(s) > 1 THEN <<Punct(",")>> \o DumpItems(Tail(s)) ELSE <<>>)

DumpMembers(f, keys) ==
  IF keys = <<>> THEN <<>>
  ELSE <<StrTok(Head(keys)), Punct(":")>> \o json_dumps(f[Head(keys)])
         \o (IF Len(keys) > 1
               THEN <<Punct(",")>> \o DumpMembers(f, Tail(keys))
               ELSE <<>>)

\* json.dumps / json.dump: the text of a value.
json_dumps(x) ==
  CASE x.t = "null" -> <<Lit("null")>>
    [] x.t = "bool" -> <<Lit(IF x.v THEN "true" ELSE "false")>>
    [] x.t = "num" -> <<NumTok(x.v)>>
    [] x.t = "str" -> <<StrTok(x.v)>>
    [] x.t = "list" -> <<Punct("[")>> \o DumpItems(x.v) \o <<Punct("]")>>
    [] x.t = "dict" ->
         <<Punct("{")>> \o DumpMembers(x.v, KeysOf(x.v)) \o <<Punct("}")>>

ParseFail == [ok |-> FALSE, val |-> None, rest |-> <<>>]
ParseOk(x, r) == [ok |-> TRUE, val |-> x, rest |-> r]
IsPunct(tok, c) == tok.t = "punct" /\ tok.v = c
StartsWith(toks, c) == toks # <<>> /\ IsPunct(Head(toks), c)

RECURSIVE ParseValue(_)
RECURSIVE ParseElems(_, _)
RECURSIVE ParseMembers(_, _)

\* after "[" or ",": a value, then "," or "]"
ElemsAfter(e, acc) ==
  IF ~e.ok THEN ParseFail
  ELSE IF StartsWith(e.rest, "]")
         THEN ParseOk(PyList(Append(acc, e.val)), Tail(e.rest))
  ELSE IF StartsWith(e.rest, ",")
         THEN ParseElems(Tail(e.rest), Append(acc, e.val))
  ELSE ParseFail

ParseElems(toks, acc) == ElemsAfter(ParseValue(toks), acc)

\* after "{" or ",": a string key, ":", a value, then "," or "}".  A key
\* that repeats keeps its last value.
MembersAfter(key, e, acc) ==
  IF ~e.ok THEN ParseFail
  ELSE IF StartsWith(e.rest, "}")
         THEN ParseOk(PyDict(Put(acc, key, e.val)), Tail(e.rest))
  ELSE IF StartsWith(e.rest, ",")
         THEN ParseMembers(Tail(e.rest), Put(acc, key, e.val))
  ELSE ParseFail

ParseMembers(toks, acc) ==
  IF Len(toks) < 2 \/ Head(toks).t # "string" \/ ~IsPunct(toks[2], ":")
    THEN ParseFail
  ELSE MembersAfter(Head(toks).v, ParseValue(SubSeq(toks, 3, Len(toks))), acc)

ParseValue(toks) ==
  IF toks = <<>> THEN ParseFail
  ELSE
    LET h == Head(toks)
        r == Tail(toks)
    IN
    CASE h.t = "number" -> ParseOk(PyNum(h.v), r)
      [] h.t = "string" -> ParseOk(PyStr(h.v), r)
      [] h.t = "lit" ->
           ParseOk(IF h.v = "null" THEN None ELSE PyBool(h.v = "true"), r)
      [] IsPunct(h, "[") ->
           IF StartsWith(r, "]") THEN ParseOk(PyList(<<>>), Tail(r))
           ELSE ParseElems(r, <<>>)
      [] IsPunct(h, "{") ->
           IF StartsWith(r, "}") THEN ParseOk(PyDict(EmptyMap), Tail(r))
           ELSE ParseMembers(r, EmptyMap)
      [] OTHER -> ParseFail

\* json.loads / json.load / Response.json: the whole text must be one value.
WholeText(p) ==
  IF p.ok /\ p.rest = <<>> THEN [exc |-> "none", val |-> p.val]
  ELSE [exc |-> "JSONDecodeError", val |-> None]

json_loads(text) == WholeText(ParseValue(text))

\* --------------------------------------------------------- exceptions
\* Every exception of the model derives from Exception, so `except Exception`
\* catches each of them.
ExceptionClasses ==
  {"FileNotFoundError", "IsADirectoryError", "OSError", "JSONDecodeError",
   "AttributeError", "KeyError", "TypeError", "HTTPError", "ConnectionError",
   "Timeout"}
Raised(r) == r.exc \in ExceptionClasses

\* -------------------------------------------------------- the cache dir
CACHE_DIR == "~/.weightpilot_cache"
CacheNames == {"diet_result", "exercise_result"}

\* faulty variant: one file for every name
_cache_path_shared(name) == <<CACHE_DIR, "result", ".json">>

\* os.path.join(CACHE_DIR, f"{name}.json")
_cache_path(name) == <<CACHE_DIR, name, ".json">>

Paths == {_cache_path(n) : n \in CacheNames}

\* What is at a path: nothing, a regular file with its text, or something
\* open() refuses (a directory).
NoFile == [kind |-> "absent", text |-> <<>>]
RegularFile(text) == [kind |-> "file", text |-> text]
Directory == [kind |-> "dir", text |-> <<>>]

\* The points where _save_cache can stop with an OSError: in os.makedirs, in
\* open(), or in json.dump after n tokens reached the file (torn: and a piece
\* of the next one).
NoFault == [at |-> "none", n |-> 0, torn |-> FALSE]

\* the document _save_cache writes
Envelope(data, now) == PyDict([ts |-> PyNum(now), data |-> data])
Times == 1..MaxTime

\* faulty variant: json.dump(data, f), without the {"ts", "data"} document around it
_save_cache_bare(files, name, data, now, fault) ==
  LET path == _cache_path(name)
      text == json_dumps(data)
      put(f) == [p \in DOMAIN files |-> IF p = path THEN f ELSE files[p]]
  IN
  IF fault.at = "makedirs" THEN [exc |-> "OSError", files |-> files]
  ELSE IF files[path].kind = "dir"
    THEN [exc |-> "IsADirectoryError", files |-> files]
  ELSE IF fault.at = "open" THEN [exc |-> "OSError", files |-> files]
  ELSE IF fault.at = "write"
    THEN [exc |-> "OSError", files |-> put(RegularFile(<<>>))]
  ELSE [exc |-> "none", files |-> put(RegularFile(text))]

\* _save_cache(name, data): the files afterwards and the exception raised.
\* open(.., "w") empties the file before json.dump writes the first byte.
_save_cache(files, name, data, now, fault) ==
  LET path == _cache_path(name)
      text == json_dumps(Envelope(data, now))
      put(f) == [p \in DOMAIN files |-> IF p = path THEN f ELSE files[p]]
  IN
  IF fault.at = "makedirs" THEN [exc |-> "OSError", files |-> files]
  ELSE IF files[path].kind = "dir"
    THEN [exc |-> "IsADirectoryError", files |-> files]
  ELSE IF fault.at = "open" THEN [exc |-> "OSError", files |-> files]
  ELSE IF fault.at = "write"
    THEN [exc |-> "OSError",
          files |-> put(RegularFile(SubSeq(text, 1, fault.n)
                          \o (IF fault.torn THEN <<BadTok>> ELSE <<>>)))]
  ELSE [exc |-> "none", files |-> put(RegularFile(text))]

\* json.load(f).get("data"), `doc` being what json.load returned or raised
DataOf(doc) == IF Raised(doc) THEN doc ELSE DictGet(doc.val, "data")

\* faulty variant: return json.load(f), the whole document
LoadBodyWholeDocument(files, name) ==
  LET f == files[_cache_path(name)] IN
  IF f.kind = "absent" THEN [exc |-> "FileNotFoundError", val |-> None]
  ELSE IF f.kind = "dir" THEN [exc |-> "IsADirectoryError", val |-> None]
  ELSE json_loads(f.text)

\* the try block of _load_cache: open, json.load(f).get("data")
LoadBody(files, name) ==
  LET f == files[_cache_path(name)] IN
  IF f.kind = "absent" THEN [exc |-> "FileNotFoundError", val |-> None]
  ELSE IF f.kind = "dir" THEN [exc |-> "IsADirectoryError", val |-> None]
  ELSE DataOf(json_loads(f.text))

\* except Exception: return None
ExceptException(r) == IF Raised(r) THEN [exc |-> "none", val |-> None] ELSE r

\* faulty variant: except (OSError, ValueError): an AttributeError leaves the function
ExceptOSErrorValueError(r) ==
  IF r.exc \in {"FileNotFoundError", "IsADirectoryError", "OSError", "JSONDecodeError"}
    THEN [exc |-> "none", val |-> None]
  ELSE r

_load_cache_narrow(files, name) == ExceptOSErrorValueError(LoadBody(files, name))

\* _load_cache(name): `except Exception: return None`
_load_cache(files, name) == ExceptException(LoadBody(files, name))

\* os.remove(path)
os_remove(files, path) ==
  IF files[path].kind = "absent"
    THEN [exc |-> "FileNotFoundError", files |-> files]
  ELSE IF files[path].kind = "dir"
    THEN [exc |-> "IsADirectoryError", files |-> files]
  ELSE [exc |-> "none",
        files |-> [p \in DOMAIN files |-> IF p = path THEN NoFile ELSE files[p]]]

\* try: os.remove(_cache_path(name)) / except Exception: pass
RemoveCacheFile(files, name) == os_remove(files, _cache_path(name)).files

\* ------------------------------------------------------ backend client
\* What the network gives back for one request: a response with a status and
\* a body, or no response (requests raises ConnectionError or Timeout).
HttpResponse(status, body) == [net |-> "ok", status |-> status, body |-> body]
NoResponse(e) == [net |-> e, status |-> 0, body |-> <<>>]
NetworkFailures == {NoResponse(e) : e \in {"ConnectionError", "Timeout"}}

\* a body that is no JSON (an HTML error page)
GarbageBody == <<BadTok>>
ErrorBody == json_dumps(PyDict([detail |-> PyStr("bad profile")]))

\* The replies to a call whose well-formed answers are `answers`.
Replies(answers) ==
  {HttpResponse(200, b) : b \in {json_dumps(x) : x \in answers} \cup {GarbageBody}}
    \cup {HttpResponse(500, b) : b \in {ErrorBody, GarbageBody}}
    \cup NetworkFailures

\* faulty variant: only a server error raises
raise_for_status_5xx(reply) ==
  IF 500 <= reply.status /\ reply.status < 600 THEN "HTTPError" ELSE "none"

\* Response.raise_for_status(): HTTPError for 4xx and 5xx
raise_for_status(reply) ==
  IF 400 <= reply.status /\ reply.status < 600 THEN "HTTPError" ELSE "none"

\* raise HTTPError(..., response=self): the error holds the response
HTTPError(reply) == [exc |-> "HTTPError", val |-> None, response |-> reply]

\* r = _session().post(...) ; r.raise_for_status() ; return r.json()
generate_diet_plan(reply) ==
  IF reply.net # "ok" THEN [exc |-> reply.net, val |-> None]
  ELSE IF raise_for_status(reply) # "none" THEN HTTPError(reply)
  ELSE json_loads(reply.body)

generate_exercise_plan(reply) ==
  IF reply.net # "ok" THEN [exc |-> reply.net, val |-> None]
  ELSE IF raise_for_status(reply) # "none" THEN HTTPError(reply)
  ELSE json_loads(reply.body)

project_progress(reply) ==
  IF reply.net # "ok" THEN [exc |-> reply.net, val |-> None]
  ELSE IF raise_for_status(reply) # "none" THEN HTTPError(reply)
  ELSE json_loads(reply.body)

\* faulty variant: return r.ok
ping_backend_ok(reply) ==
  IF reply.net # "ok" THEN PyBool(FALSE) ELSE PyBool(reply.status < 400)

\* ping_backend() of services/agent_api.py: try: r = _session().get(...);
\* return r.status_code == 200 / except Exception: return False
ping_backend(reply) ==
  IF reply.net # "ok" THEN PyBool(FALSE) ELSE PyBool(reply.status = 200)

\* ping_backend() of ui.py: the same around requests.get
ui_ping_backend(reply) ==
  IF reply.net # "ok" THEN PyBool(FALSE) ELSE PyBool(reply.status = 200)

\* call_backend_plan() of ui.py
call_backend_plan(reply) ==
  IF reply.net # "ok" THEN [exc |-> reply.net, val |-> None]
  ELSE IF raise_for_status(reply) # "none" THEN HTTPError(reply)
  ELSE json_loads(reply.body)

\* Every reply to a call whose well-formed answers are `answers`, under each
\* of five statuses.
AllReplies(answers) ==
  {HttpResponse(st, b) :
     st \in {200, 204, 304, 404, 500},
     b \in {json_dumps(x) : x \in answers} \cup {ErrorBody, GarbageBody}}
    \cup NetworkFailures

\* r.raise_for_status() ; return r.json()
vapi_config(reply) ==
  IF reply.net # "ok" THEN [exc |-> reply.net, val |-> None]
  ELSE IF raise_for_status(reply) # "none" THEN HTTPError(reply)
  ELSE json_loads(reply.body)

\* r.raise_for_status() ; return r.json().get("suggestions", [])
recipe_suggestions(reply) ==
  IF reply.net # "ok" THEN [exc |-> reply.net, val |-> None]
  ELSE IF raise_for_status(reply) # "none" THEN HTTPError(reply)
  ELSE LET j == json_loads(reply.body) IN
       IF Raised(j) THEN j
       ELSE IF Raised(DictGet(j.val, "suggestions")) THEN DictGet(j.val, "suggestions")
       ELSE IF "suggestions" \in DOMAIN j.val.v
         THEN [exc |-> "none", val |-> j.val.v["suggestions"]]
       ELSE [exc |-> "none", val |-> PyList(<<>>)]

recipe_detail(reply) ==
  IF reply.net # "ok" THEN [exc |-> reply.net, val |-> None]
  ELSE IF raise_for_status(reply) # "none" THEN HTTPError(reply)
  ELSE json_loads(reply.body)

\* The answers of the backend (section 6 of the spec: JSON objects).
DietResponses ==
  {PyDict([targets |-> PyDict([calorie_target |-> PyNum(1684)]),
           plan_markdown |-> PyStr("diet plan A")]),
   PyDict([plan_markdown |-> PyStr("diet plan B")])}
ExerciseResponses == {PyDict([plan_markdown |-> PyStr("regimen A")])}
ProjectionResponses ==
  {PyDict([series |-> PyList(<<PyNum(72), PyNum(71)>>),
           explanation_md |-> PyStr("why")])}

\* /v1/recipe/suggest: a list of dishes under "suggestions", an empty list, no
\* such key, or a body that is a JSON list
Dishes ==
  <<PyDict([name |-> PyStr("dal"), one_liner |-> PyStr("lentils")]),
    PyDict([one_liner |-> PyStr("no name")])>>
SuggestResponses ==
  {PyDict([suggestions |-> PyList(Dishes)]),
   PyDict([suggestions |-> PyList(<<>>)]),
   PyDict(EmptyMap),
   PyList(<<>>)}

\* /v1/recipe/detail: a recipe, or null
DetailResponses ==
  {PyDict([servings |-> PyNum(2), steps |-> PyList(<<PyStr("boil")>>)]), None}

\* /v1/vapi/config: both keys set, one empty, one missing
VapiConfigs ==
  {PyDict([public_key |-> PyStr("pk"), assistant_id |-> PyStr("aid")]),
   PyDict([public_key |-> PyStr(""), assistant_id |-> PyStr("aid")]),
   PyDict([assistant_id |-> PyStr("aid")])}

\* ------------------------------------------------- configuration, requests
\* UI_API_KEY in the environment: unset, set to the empty string, or set
Envs == {[UI_API_KEY |-> k] : k \in {None, PyStr(""), PyStr("k3y")}}

\* UI_HTTP_TIMEOUT, by default
TIMEOUT == 60
\* the timeout of the health check and of vapi_config
HEALTH_TIMEOUT == 10

Request(method, path, headers, body, timeout) ==
  [method |-> method, path |-> path, headers |-> headers, body |-> body,
   timeout |-> timeout]

\* _session(): the headers of the session
_session(e) ==
  IF Truthy(e.UI_API_KEY)
    THEN Put(Put(EmptyMap, "Content-Type", "application/json"), "X-API-Key",
             e.UI_API_KEY.v)
  ELSE Put(EmptyMap, "Content-Type", "application/json")

\* the requests of services/agent_api.py
PlanRequest(e, profile) ==
  Request("POST", "/v1/plan", _session(e), json_dumps(profile), TIMEOUT)
ExerciseRequest(e, payload) ==
  Request("POST", "/v1/exercise/plan", _session(e), json_dumps(payload), TIMEOUT)
ProjectRequest(e, profile, calorie_target, extra_burn, weeks) ==
  Request("POST", "/v1/progress/project", _session(e),
          json_dumps(PyDict([profile |-> profile,
                             calorie_target |-> calorie_target,
                             extra_burn_kcal_per_day |-> extra_burn,
                             weeks |-> weeks])), TIMEOUT)

\* the requests of the recipe section: the cuisine selectbox is left at
\* "indian", the multiselects of "Get recipe" at their defaults
SuggestRequest(e, ingredients) ==
  Request("POST", "/v1/recipe/suggest", _session(e),
          json_dumps(PyDict([ingredients |->
                               PyList([i \in 1..Len(ingredients) |->
                                         PyStr(ingredients[i])]),
                             cuisine |-> PyStr("indian"), count |-> PyNum(5)])),
          TIMEOUT)
DetailRequest(e, dish) ==
  Request("POST", "/v1/recipe/detail", _session(e),
          json_dumps(PyDict([dish |-> PyStr(dish),
                             ingredients |->
                               PyList(<<PyStr("Onion"), PyStr("Tomato"),
                                        PyStr("Chicken")>>),
                             cuisine |-> PyStr("indian")])), TIMEOUT)

\* the requests of ui.py: call_backend_plan builds its own headers, its
\* ping_backend passes none
UiPlanRequest(e, profile) ==
  Request("POST", "/v1/plan",
          IF Truthy(e.UI_API_KEY)
            THEN Put(Put(EmptyMap, "Content-Type", "application/json"),
                     "X-API-Key", e.UI_API_KEY.v)
          ELSE Put(EmptyMap, "Content-Type", "application/json"),
          json_dumps(profile), TIMEOUT)
UiHealthRequest == Request("GET", "/health", EmptyMap, <<>>, HEALTH_TIMEOUT)

\* ------------------------------------------------------------ the profile
\* str.lower() on the options of the Goal selectbox
Lower(x) ==
  CASE x.v = "Maintain" -> PyStr("maintain")
    [] x.v = "Lose" -> PyStr("lose")
    [] x.v = "Gain" -> PyStr("gain")
    [] OTHER -> x

\* `x in list`
Contains(list, x) == \E i \in 1..Len(list.v) : list.v[i] = x

\* the widgets of the profile form as they are first drawn
FormDefaults ==
  [age |-> PyNum(28), sex_ab |-> PyStr("Female"), height_cm |-> PyNum(170),
   weight_kg |-> PyNum(72), gender_id |-> PyStr(""), race_eth |-> PyStr(""),
   activity |-> PyStr("Light"), goal |-> PyStr("Lose"),
   goal_rate |-> PyStr("moderate"), diet |-> PyStr("none"),
   cuisines |-> PyList(<<PyStr("American"), PyStr("Indian")>>),
   allergies |-> PyList(<<PyStr("none")>>),
   medical_flags |-> PyList(<<PyStr("none")>>), consent |-> TRUE]

\* The forms a user may leave: nothing changed, every widget changed, "none"
\* left selected beside other options; each with and without consent.
Forms ==
  {[f EXCEPT !.consent = c] :
     f \in {FormDefaults,
            [age |-> PyNum(45), sex_ab |-> PyStr("Male"),
             height_cm |-> PyNum(182), weight_kg |-> PyNum(90),
             gender_id |-> PyStr("man"), race_eth |-> PyStr("Asian"),
             activity |-> PyStr("Active"), goal |-> PyStr("Gain"),
             goal_rate |-> PyStr("gentle"), diet |-> PyStr("vegan"),
             cuisines |-> PyList(<<>>),
             allergies |-> PyList(<<PyStr("peanut"), PyStr("soy")>>),
             medical_flags |-> PyList(<<PyStr("diabetes")>>), consent |-> TRUE],
            [FormDefaults EXCEPT
               !.allergies = PyList(<<PyStr("none"), PyStr("peanut")>>),
               !.medical_flags = PyList(<<PyStr("diabetes"), PyStr("none")>>)]},
     c \in BOOLEAN}

\* the profile dict that tabs/profile.py and ui.py build from the widgets
ProfileOfForm(f) ==
  PyDict([age |-> f.age, sex_assigned_at_birth |-> f.sex_ab,
          gender_identity |-> Or(f.gender_id, None),
          height_cm |-> f.height_cm, weight_kg |-> f.weight_kg,
          activity_level |-> f.activity, goal |-> Lower(f.goal),
          goal_rate |-> f.goal_rate,
          diet |-> IF f.diet = PyStr("none") THEN None ELSE f.diet,
          allergies |-> IF Contains(f.allergies, PyStr("none"))
                          THEN PyList(<<>>) ELSE f.allergies,
          medical_flags |-> IF Contains(f.medical_flags, PyStr("none"))
                              THEN PyList(<<>>) ELSE f.medical_flags,
          cuisines |-> f.cuisines,
          race_ethnicity |-> Or(f.race_eth, None)])

\* ss.get(key, default)
SessionGet(s, key, default) == IF key \in DOMAIN s THEN s[key] ELSE default

\* build_profile_from_session(): every field is looked up in
\* st.session_state under the label of its widget
build_profile_from_session(s) ==
  PyDict([age |-> SessionGet(s, "Age", PyNum(28)),
          sex_assigned_at_birth |-> SessionGet(s, "Gender", PyStr("Male")),
          gender_identity |-> Or(SessionGet(s, "Gender(optional)", None), None),
          height_cm |-> SessionGet(s, "Height (cm)", PyNum(170)),
          weight_kg |-> SessionGet(s, "Weight (kg)", PyNum(72)),
          activity_level |-> SessionGet(s, "Activity level", PyStr("Light")),
          goal |-> Lower(Or(SessionGet(s, "Goal", PyStr("lose")), PyStr("lose"))),
          goal_rate |-> SessionGet(s, "Intensity", PyStr("moderate")),
          diet |-> IF SessionGet(s, "Diet pattern", PyStr("none")) = PyStr("none")
                     THEN None
                   ELSE SessionGet(s, "Diet pattern", PyStr("none")),
          allergies |->
            IF Contains(SessionGet(s, "Allergies/intolerances",
                                   PyList(<<PyStr("none")>>)), PyStr("none"))
              THEN PyList(<<>>)
            ELSE SessionGet(s, "Allergies/intolerances", PyList(<<PyStr("none")>>)),
          medical_flags |->
            IF Contains(SessionGet(s, "Medical considerations (informational only - consult your clinician)",
                                   PyList(<<PyStr("none")>>)), PyStr("none"))
              THEN PyList(<<>>)
            ELSE SessionGet(s, "Medical considerations (informational only - consult your clinician)",
                            PyList(<<PyStr("none")>>)),
          cuisines |-> Or(SessionGet(s, "Cuisines you enjoy (for menu ideas)",
                                     PyList(<<PyStr("American"), PyStr("Indian")>>)),
                          PyList(<<>>)),
          race_ethnicity |-> Or(SessionGet(s, "Race/Ethnicity (optional)", None),
                                None)])

\* ------------------------------------------------------------ the state
\* fs: what is at each cache path.  ss: st.session_state, a dict (the keys
\* present are its domain).  last: the interaction that ran last: the button,
\* how its backend call ended (call), the response it got (data), how the
\* cache write ended (io), the message shown (msg) and the exception that
\* left the handler (exc).  loads: how often this session called _load_cache
\* for each name.  env: the environment variables the modules read when they
\* are imported.  form: the values of the profile widgets, which Streamlit
\* keeps outside st.session_state because the widgets have no key.
\* last also holds the requests the interaction sent (req), in order, and,
\* where a function of the client was called on its own, the reply it got
\* (resp) and the response inside the error it raised (err).
VARIABLES fs, ss, last, loads, env, form
vars == <<fs, ss, last, loads, env, form>>

NoReply == [net |-> "none", status |-> 0, body |-> <<>>]

Shown(op, name, call, data, io, msg, exc) ==
  [op |-> op, name |-> name, call |-> call, data |-> data, io |-> io,
   msg |-> msg, exc |-> exc, req |-> <<>>, resp |-> NoReply, err |-> NoReply]

\* the same interaction, having sent `reqs`
Sent(shown, reqs) == [shown EXCEPT !.req = reqs]

\* the same interaction, having got `reply`
Replied(shown, reply) == [shown EXCEPT !.resp = reply]

\* the same interaction, its call having ended as `out`: e.response
Failed(shown, out) ==
  [shown EXCEPT !.err = IF "response" \in DOMAIN out THEN out.response
                        ELSE NoReply]

\* if name not in st.session_state: st.session_state[name] = _load_cache(name)
InitFromCache(s, files, name) ==
  IF name \notin DOMAIN s THEN Put(s, name, _load_cache(files, name).val) ELSE s

\* faulty variant: both entries are loaded on every run, without the `not in` tests
_init_state_from_cache_always(s, files) ==
  [ss |-> Put(Put(s, "diet_result", _load_cache(files, "diet_result").val),
              "exercise_result", _load_cache(files, "exercise_result").val),
   read |-> {"diet_result", "exercise_result"}]

\* _init_state_from_cache(): the session state afterwards and the names read
_init_state_from_cache(s, files) ==
  [ss |-> InitFromCache(InitFromCache(s, files, "diet_result"), files,
                        "exercise_result"),
   read |-> {n \in {"diet_result", "exercise_result"} : n \notin DOMAIN s}]

\* The start of every run of render(): _init_state_from_cache().
Started == _init_state_from_cache(ss, fs)
CountLoads ==
  loads' = [n \in CacheNames |-> loads[n] + (IF n \in Started.read THEN 1 ELSE 0)]

\* A button can be pressed once a run of render() has shown it.
Rendered == CacheNames \subseteq DOMAIN ss
CoachRendered == "pros" \in DOMAIN ss

\* Where a cache write is stopped here: before the file is opened, with the
\* file emptied, in the middle of the second token, or with all but the
\* closing brace written.
WriteFaults(data, now) ==
  {NoFault}
    \cup {[at |-> a, n |-> 0, torn |-> FALSE] : a \in {"makedirs", "open"}}
    \cup {[at |-> "write", n |-> 0, torn |-> FALSE],
          [at |-> "write", n |-> 1, torn |-> TRUE],
          [at |-> "write", n |-> Len(json_dumps(Envelope(data, now))) - 1,
           torn |-> FALSE]}

HandlerFaults(res, now) ==
  IF Raised(res) THEN {NoFault} ELSE WriteFaults(res.val, now)

\* time.time() is read only when the call has returned
Clock(res) == IF Raised(res) THEN {1} ELSE Times

\* How each call of the client can end: what it returns or raises, over the
\* replies of the network.
DietCalls == {generate_diet_plan(r) : r \in Replies(DietResponses)}
ExerciseCalls == {generate_exercise_plan(r) : r \in Replies(ExerciseResponses)}
ProjectionCalls == {project_progress(r) : r \in Replies(ProjectionResponses)}

\* the rest of the try block once the call has returned `data` and _save_cache
\* has ended as `sv`: st.success, or st.error when _save_cache raised
Stored(s, data, sv) ==
  [ss |-> s, files |-> sv.files, call |-> "ok", data |-> data, io |-> sv.exc,
   msg |-> IF Raised(sv) THEN "error" ELSE "success"]

\* faulty variant: the except branch resets the result
TryGenerateReset(s, files, name, res, now, fault) ==
  IF Raised(res)
    THEN [ss |-> Put(s, name, None), files |-> files, call |-> res.exc,
          data |-> None, io |-> "none", msg |-> "error"]
  ELSE Stored(Put(s, name, res.val), res.val,
              _save_cache(files, name, res.val, now, fault))

\* faulty variant: the result is kept in session state only, _save_cache is not called
TryGenerateNoSave(s, files, name, res, now, fault) ==
  IF Raised(res)
    THEN [ss |-> s, files |-> files, call |-> res.exc, data |-> None,
          io |-> "none", msg |-> "error"]
  ELSE [ss |-> Put(s, name, res.val), files |-> files, call |-> "ok",
        data |-> res.val, io |-> "none", msg |-> "success"]

\* the try block of a generate button, `res` being what the backend call
\* returned or raised: session_state[name] = result; _save_cache(name, result);
\* st.success / except Exception: st.error
TryGenerate(s, files, name, res, now, fault) ==
  IF Raised(res)
    THEN [ss |-> s, files |-> files, call |-> res.exc, data |-> None,
          io |-> "none", msg |-> "error"]
  ELSE Stored(Put(s, name, res.val), res.val,
              _save_cache(files, name, res.val, now, fault))

\* faulty variant: clear resets both results and removes both files
ClearResultBoth(s, files, name) ==
  [ss |-> [k \in DOMAIN s |-> IF k \in CacheNames THEN None ELSE s[k]],
   files |-> [p \in Paths |-> NoFile]]

\* faulty variant: only the session state is reset, the file stays
ClearResultKeepsFile(s, files, name) ==
  [ss |-> Put(s, name, None), files |-> files]

\* the body of a clear button
ClearResult(s, files, name) ==
  [ss |-> Put(s, name, None), files |-> RemoveCacheFile(files, name)]

\* ------------------------------------------- the recipe section (recipe.py)
recipe_ensure_state(s) ==
  SetDefault(SetDefault(SetDefault(s, "recipe_suggestions", PyList(<<>>)),
                        "recipe_selected", None),
             "recipe_detail", None)

\* the index the radio is built with: 0 if nothing is selected
RadioDefault(s) ==
  IF s["recipe_selected"].t = "null" THEN 0 ELSE s["recipe_selected"].v

\* `if ideas:` ... idx = st.radio(...) ; session_state[_SEL_KEY] = idx
RadioShown(s, idx) ==
  IF Truthy(s["recipe_suggestions"])
    THEN Put(s, "recipe_selected", PyNum(idx))
  ELSE s

\* render_recipe_section() with none of its widgets touched
RadioIdle(s) == RadioShown(s, RadioDefault(s))
RecipeIdle(s) == RadioIdle(recipe_ensure_state(s))

\* the multiselects: nothing chosen, or the defaults
IngredientChoices == {<<>>, <<"Onion", "Tomato", "Chicken">>}

\* faulty variant: a failed call empties the list
FindDishesResetsOnError(s, ingredients, res) ==
  IF Len(ingredients) = 0
    THEN [ss |-> s, dish |-> "", call |-> "none", data |-> None,
          msg |-> "warning"]
  ELSE IF Raised(res)
    THEN [ss |-> Put(s, "recipe_suggestions", PyList(<<>>)), dish |-> "",
          call |-> res.exc, data |-> None, msg |-> "error"]
  ELSE [ss |-> Put(Put(Put(s, "recipe_suggestions", Or(res.val, PyList(<<>>))),
                       "recipe_selected", None),
                   "recipe_detail", None),
        dish |-> "", call |-> "ok", data |-> res.val,
        msg |-> IF Truthy(res.val) THEN "success" ELSE "info"]

\* "Find dishes", `res` being what recipe_suggestions returned or raised
FindDishesPressed(s, ingredients, res) ==
  IF Len(ingredients) = 0
    THEN [ss |-> s, dish |-> "", call |-> "none", data |-> None,
          msg |-> "warning"]
  ELSE IF Raised(res)
    THEN [ss |-> s, dish |-> "", call |-> res.exc, data |-> None,
          msg |-> "error"]
  ELSE [ss |-> Put(Put(Put(s, "recipe_suggestions", Or(res.val, PyList(<<>>))),
                       "recipe_selected", None),
                   "recipe_detail", None),
        dish |-> "", call |-> "ok", data |-> res.val,
        msg |-> IF Truthy(res.val) THEN "success" ELSE "info"]

\* faulty variant: the selection survives "Clear"
RecipeClearKeepsSelection(s) ==
  Put(Put(s, "recipe_suggestions", PyList(<<>>)), "recipe_detail", None)

\* "Clear" of the recipe section
RecipeClearPressed(s) ==
  Put(Put(Put(s, "recipe_suggestions", PyList(<<>>)), "recipe_selected", None),
      "recipe_detail", None)

\* chosen = ideas[idx].get("name") or ""
Chosen(s, idx) ==
  Or(DictGet(s["recipe_suggestions"].v[idx + 1], "name").val, PyStr("")).v

\* faulty variant: a failed call drops the list
GetRecipeDropsList(s, res) ==
  IF Raised(res)
    THEN [ss |-> Put(s, "recipe_suggestions", PyList(<<>>)),
          dish |-> Chosen(s, RadioDefault(s)), call |-> res.exc,
          data |-> None, msg |-> "error"]
  ELSE [ss |-> Put(s, "recipe_detail", Or(res.val, PyDict(EmptyMap))),
        dish |-> Chosen(s, RadioDefault(s)), call |-> "ok", data |-> res.val,
        msg |-> "success"]

\* "Get recipe", `res` being what recipe_detail returned or raised
GetRecipePressed(s, res) ==
  IF Raised(res)
    THEN [ss |-> s, dish |-> Chosen(s, RadioDefault(s)), call |-> res.exc,
          data |-> None, msg |-> "error"]
  ELSE [ss |-> Put(s, "recipe_detail", Or(res.val, PyDict(EmptyMap))),
        dish |-> Chosen(s, RadioDefault(s)), call |-> "ok", data |-> res.val,
        msg |-> "success"]

\* ------------------------------------------------ the coach tab (coach.py)
ProIds == <<"rd_001", "pt_101">>

\* the seeded professionals, by id
_seed_pros == PyList([i \in 1..Len(ProIds) |-> PyStr(ProIds[i])])

coach_ensure_state(s) ==
  SetDefault(SetDefault(SetDefault(s, "pros", _seed_pros),
                        "coach_requests", PyList(<<>>)),
             "selected_pro_id", None)

\* `if send_btn:`, `res` being what vapi_config returned or raised; nothing
\* here is inside a try.  msg "success" is components.html(...) followed by
\* st.success("Request prepared ..."): the widget and the confirmation come
\* together; msg "error" is st.error followed by return
SendRequestPressed(res) ==
  LET pk == GetItem(res.val, "public_key")
      aid == GetItem(res.val, "assistant_id") IN
  IF Raised(res) THEN [call |-> res.exc, msg |-> "none", exc |-> res.exc]
  ELSE IF Raised(pk) THEN [call |-> "ok", msg |-> "none", exc |-> pk.exc]
  ELSE IF Raised(aid) THEN [call |-> "ok", msg |-> "none", exc |-> aid.exc]
  ELSE IF ~(Truthy(pk.val) /\ Truthy(aid.val))
    THEN [call |-> "ok", msg |-> "error", exc |-> "none"]
  ELSE [call |-> "ok", msg |-> "success", exc |-> "none"]

SuggestCalls == {recipe_suggestions(r) : r \in Replies(SuggestResponses)}
DetailCalls == {recipe_detail(r) : r \in Replies(DetailResponses)}
VapiCalls == {vapi_config(r) : r \in Replies(VapiConfigs)}

\* payload = {"profile": profile, "preferences": {}}
ExercisePayload(profile) ==
  PyDict([profile |-> profile, preferences |-> PyDict(EmptyMap)])

\* the number inputs and the slider of the projection, as first shown
CALORIE_TARGET == 2000
EXTRA_BURN == 200
WEEKS == 26

\* faulty variant: a call that raised is made a second time
RequestsRetried(request, res) ==
  IF Raised(res) THEN <<request, request>> ELSE <<request>>

\* The requests a handler sends: its one call of the client, inside try,
\* sends `request`; whether `res` is a return or an exception, except only
\* shows st.error and nothing calls again.
Requests(request, res) == <<request>>

\* ---------------------------------------------------------- the actions
\* A run of render() with no button pressed (the first of a session, or a
\* rerun by another widget).
Render ==
  /\ ss' = RecipeIdle(Started.ss)
  /\ CountLoads
  /\ last' = Shown("render", "", "none", None, "none", "none", "none")
  /\ UNCHANGED fs
  /\ UNCHANGED <<env, form>>

\* the run of render() in which a generate or clear button was pressed ends:
\* the handler has left `h`, the recipe section is drawn
HandlerRun(op, name, h, reqs) ==
  /\ ss' = RecipeIdle(h.ss)
  /\ fs' = h.files
  /\ last' = Sent(Shown(op, name, h.call, h.data, h.io, h.msg, "none"), reqs)

Cleared(h) == [ss |-> h.ss, files |-> h.files, call |-> "none", data |-> None,
               io |-> "none", msg |-> "none"]

\* "Generate my 7-day plan"
DietGenerate ==
  /\ Rendered
  /\ \E request \in {PlanRequest(env, build_profile_from_session(Started.ss))},
        res \in DietCalls, now \in Times :
       now \in Clock(res) /\ \E fault \in HandlerFaults(res, now) :
         HandlerRun("diet_generate", "diet_result",
                    TryGenerate(Started.ss, fs, "diet_result", res, now, fault),
                    Requests(request, res))
  /\ CountLoads
  /\ UNCHANGED <<env, form>>

\* "Clear diet result"
DietClear ==
  /\ Rendered
  /\ HandlerRun("diet_clear", "diet_result",
                Cleared(ClearResult(Started.ss, fs, "diet_result")), <<>>)
  /\ CountLoads
  /\ UNCHANGED <<env, form>>

\* "Generate weekly regimen"
ExerciseGenerate ==
  /\ Rendered
  /\ \E request \in {ExerciseRequest(env,
                         ExercisePayload(build_profile_from_session(Started.ss)))},
        res \in ExerciseCalls, now \in Times :
       now \in Clock(res) /\ \E fault \in HandlerFaults(res, now) :
         HandlerRun("exercise_generate", "exercise_result",
                    TryGenerate(Started.ss, fs, "exercise_result", res, now, fault),
                    Requests(request, res))
  /\ CountLoads
  /\ UNCHANGED <<env, form>>

\* "Clear exercise result"
ExerciseClear ==
  /\ Rendered
  /\ HandlerRun("exercise_clear", "exercise_result",
                Cleared(ClearResult(Started.ss, fs, "exercise_result")), <<>>)
  /\ CountLoads
  /\ UNCHANGED <<env, form>>

\* the try block of "Compute projection", `res` being what project_progress
\* returned or raised
TryProject(s, res) ==
  IF Raised(res)
    THEN [ss |-> s, files |-> fs, call |-> res.exc, data |-> None,
          io |-> "none", msg |-> "error"]
  ELSE [ss |-> Put(s, "progress_projection", res.val), files |-> fs,
        call |-> "ok", data |-> res.val, io |-> "none", msg |-> "success"]

\* "Compute projection", the three inputs left as they are shown
ComputeProjection ==
  /\ Rendered
  /\ \E request \in {ProjectRequest(env, build_profile_from_session(Started.ss),
                                      PyNum(CALORIE_TARGET), PyNum(EXTRA_BURN),
                                      PyNum(WEEKS))},
        res \in ProjectionCalls :
       HandlerRun("projection", "", TryProject(Started.ss, res),
                  Requests(request, res))
  /\ CountLoads
  /\ UNCHANGED <<env, form>>

\* faulty variant: a new session finds the cache directory emptied
NewSessionExpires ==
  /\ ss' = EmptyMap
  /\ loads' = [n \in CacheNames |-> 0]
  /\ last' = Shown("new_session", "", "none", None, "none", "none", "none")
  /\ fs' = [p \in Paths |-> NoFile]
  /\ form' = FormDefaults
  /\ UNCHANGED env

\* The browser opens the app again: a new, empty session_state; the cache
\* directory stays.
NewSession ==
  /\ ss' = EmptyMap
  /\ loads' = [n \in CacheNames |-> 0]
  /\ last' = Shown("new_session", "", "none", None, "none", "none", "none")
  /\ UNCHANGED fs
  /\ form' = FormDefaults
  /\ UNCHANGED env

\* a run of render() in which a button of the recipe section was pressed
\* ends: the handler has left `h`, the radio is drawn
RecipeRun(op, h, reqs) ==
  /\ ss' = RadioIdle(h.ss)
  /\ last' = Sent(Shown(op, h.dish, h.call, h.data, "none", h.msg, "none"),
                  IF h.call = "none" THEN <<>> ELSE reqs)

\* "Find dishes"
FindDishes ==
  /\ Rendered
  /\ \E ingredients \in IngredientChoices, res \in SuggestCalls :
       RecipeRun("find_dishes",
                 FindDishesPressed(recipe_ensure_state(Started.ss), ingredients, res),
                 <<SuggestRequest(env, ingredients)>>)
  /\ CountLoads
  /\ UNCHANGED fs
  /\ UNCHANGED <<env, form>>

\* "Clear" of the recipe section
RecipeClear ==
  /\ Rendered
  /\ ss' = RadioIdle(RecipeClearPressed(recipe_ensure_state(Started.ss)))
  /\ last' = Shown("recipe_clear", "", "none", None, "none", "none", "none")
  /\ CountLoads
  /\ UNCHANGED fs
  /\ UNCHANGED <<env, form>>

\* another dish is picked in the radio: a run with no button pressed
SelectDish ==
  /\ Rendered
  /\ Truthy(ss["recipe_suggestions"])
  /\ \E idx \in 0..(Len(ss["recipe_suggestions"].v) - 1) :
       /\ idx # RadioDefault(ss)
       /\ ss' = RadioShown(recipe_ensure_state(Started.ss), idx)
  /\ last' = Shown("select_dish", "", "none", None, "none", "none", "none")
  /\ CountLoads
  /\ UNCHANGED fs
  /\ UNCHANGED <<env, form>>

\* "Get recipe", shown below the radio while there are suggestions
GetRecipe ==
  /\ Rendered
  /\ Truthy(ss["recipe_suggestions"])
  /\ \E res \in DetailCalls :
       RecipeRun("get_recipe", GetRecipePressed(RecipeIdle(Started.ss), res),
                 <<DetailRequest(env, Chosen(RecipeIdle(Started.ss),
                                             RadioDefault(RecipeIdle(Started.ss))))>>)
  /\ CountLoads
  /\ UNCHANGED fs
  /\ UNCHANGED <<env, form>>

\* a run of the coach tab's render() with no button pressed
CoachRender ==
  /\ ss' = coach_ensure_state(ss)
  /\ last' = Shown("coach_render", "", "none", None, "none", "none", "none")
  /\ UNCHANGED <<fs, loads>>
  /\ UNCHANGED <<env, form>>

\* "Contact <name>" on a card
Contact ==
  /\ CoachRendered
  /\ \E i \in 1..Len(ProIds) :
       ss' = Put(coach_ensure_state(ss), "selected_pro_id", PyStr(ProIds[i]))
  /\ last' = Shown("contact", "", "none", None, "none", "none", "none")
  /\ UNCHANGED <<fs, loads>>
  /\ UNCHANGED <<env, form>>

SendRun(h, data) ==
  last' = Shown("send_request", "", h.call, data, "none", h.msg, h.exc)

\* "Send request"
SendRequest ==
  /\ CoachRendered
  /\ \E res \in VapiCalls : SendRun(SendRequestPressed(res), res.val)
  /\ ss' = coach_ensure_state(ss)
  /\ UNCHANGED <<fs, loads>>
  /\ UNCHANGED <<env, form>>

\* What may be at a cache path when the app starts: nothing, an entry an
\* earlier run wrote, a file that is no JSON, or a directory.
StartFiles(answers) ==
  {NoFile, Directory, RegularFile(GarbageBody),
   RegularFile(json_dumps(Envelope(CHOOSE x \in answers : TRUE, 1)))}

Init ==
  /\ fs \in [Paths -> UNION {StartFiles(DietResponses), StartFiles(ExerciseResponses)}]
  /\ fs[_cache_path("diet_result")] \in StartFiles(DietResponses)
  /\ fs[_cache_path("exercise_result")] \in StartFiles(ExerciseResponses)
  /\ ss = EmptyMap
  /\ loads = [n \in CacheNames |-> 0]
  /\ last = Shown("start", "", "none", None, "none", "none", "none")
  /\ env = [UI_API_KEY |-> None]
  /\ form = FormDefaults

Next ==
  \/ Render
  \/ DietGenerate
  \/ DietClear
  \/ ExerciseGenerate
  \/ ExerciseClear
  \/ ComputeProjection
  \/ NewSession

Spec == Init /\ [][Next]_vars

\* ------------------------------------- the Profile tab beside the Action tab
\* A run of tabs/profile.py render() with the widgets showing `f`: none of
\* them has a key, so their values stay outside st.session_state; render()
\* itself stores the consent flag and the profile dict.
ProfileRender ==
  /\ \E f \in Forms :
       /\ form' = f
       /\ ss' = Put(Put(ss, "consent", PyBool(f.consent)), "profile",
                    ProfileOfForm(f))
  /\ last' = Shown("profile_render", "", "none", None, "none", "none", "none")
  /\ UNCHANGED <<fs, loads, env>>

ProfileInit ==
  /\ fs = [p \in Paths |-> NoFile]
  /\ ss = EmptyMap
  /\ loads = [n \in CacheNames |-> 0]
  /\ last = Shown("start", "", "none", None, "none", "none", "none")
  /\ env = [UI_API_KEY |-> None]
  /\ form = FormDefaults

ProfileNext ==
  \/ ProfileRender
  \/ Render
  \/ DietGenerate
  \/ ExerciseGenerate
  \/ NewSession

ProfileSpec == ProfileInit /\ [][ProfileNext]_vars

\* ------------------------------------------- a request in flight
\* The run of render() in which a generate button was pressed, in two steps:
\* the handler calls the client, which sends the request and waits inside
\* requests (last.call = "pending", last.req the requests without an
\* outcome); then the call returns or raises and the rest of the handler
\* runs.  The script of a session runs in one thread and the call is
\* synchronous.  The plan button stands for the two buttons that write the
\* cache, the projection for the calls that do not.
InFlight == IF last.call = "pending" THEN last.req ELSE <<>>

\* faulty variant: the call does not wait for its response
BlockedNever == FALSE

\* the script is inside _session().post(...): no handler runs meanwhile
Blocked == last.call = "pending"

\* the handler up to the call of the client: the request is sent
Issued(op, name, request) ==
  /\ ss' = Started.ss
  /\ CountLoads
  /\ last' = Sent(Shown(op, name, "pending", None, "none", "none", "none"),
                  Append(InFlight, request))
  /\ UNCHANGED <<fs, env, form>>

\* a rerun; the plan button pressed; its call ends; the projection button
\* pressed; its call ends
FlightNext ==
  \/ ~Blocked /\ Render
  \/ /\ Rendered
     /\ ~Blocked
     /\ Issued("diet_generate", "diet_result",
               PlanRequest(env, build_profile_from_session(Started.ss)))
  \/ last.op = "diet_generate" /\ last.call = "pending" /\ DietGenerate
  \/ /\ Rendered
     /\ ~Blocked
     /\ Issued("projection", "",
               ProjectRequest(env, build_profile_from_session(Started.ss),
                              PyNum(CALORIE_TARGET), PyNum(EXTRA_BURN),
                              PyNum(WEEKS)))
  \/ last.op = "projection" /\ last.call = "pending" /\ ComputeProjection

\* requests is given a timeout on every call (TIMEOUT, or 10 for the GETs):
\* a call that is waiting returns or raises.
FlightSpec ==
  /\ ProfileInit
  /\ [][FlightNext]_vars
  /\ WF_vars(last.call = "pending" /\ FlightNext)

\* ------------------------------ the recipe section and the coach tab
\* The recipe section and the coach tab keep everything in session_state;
\* this specification runs them over an empty cache directory.
PanelNext ==
  \/ Render
  \/ FindDishes
  \/ RecipeClear
  \/ SelectDish
  \/ GetRecipe
  \/ CoachRender
  \/ Contact
  \/ SendRequest
  \/ NewSession

PanelSpec == ProfileInit /\ [][PanelNext]_vars

\* ------------------------------------------------ the client alone
\* The functions of services/agent_api.py and of ui.py that talk to the
\* backend, called directly with any payload, under any setting of
\* UI_API_KEY, and given any reply.

\* a function of the client was called: it sent `request`, got `reply` and
\* returned or raised `out`
ClientCall(op, request, reply, out) ==
  /\ last' = Failed(Replied(Sent(Shown(op, "", IF Raised(out) THEN out.exc ELSE "ok",
                                        out.val, "none", "none", out.exc),
                                  <<request>>), reply), out)
  /\ UNCHANGED <<fs, ss, loads, env, form>>

ClientInit ==
  /\ env \in Envs
  /\ fs = [p \in Paths |-> NoFile]
  /\ ss = EmptyMap
  /\ loads = [n \in CacheNames |-> 0]
  /\ form = FormDefaults
  /\ last = Shown("start", "", "none", None, "none", "none", "none")

\* ping_backend of agent_api.py and of ui.py; generate_diet_plan;
\* call_backend_plan; generate_exercise_plan; project_progress;
\* recipe_suggestions; recipe_detail; vapi_config
ClientNext ==
  \/ \E reply \in AllReplies({PyDict(EmptyMap)}) :
       ClientCall("ping_backend",
                  Request("GET", "/health", _session(env), <<>>, HEALTH_TIMEOUT),
                  reply, [exc |-> "none", val |-> ping_backend(reply)])
  \/ \E reply \in AllReplies({PyDict(EmptyMap)}) :
       ClientCall("ui_ping_backend", UiHealthRequest, reply,
                  [exc |-> "none", val |-> ui_ping_backend(reply)])
  \/ \E f \in Forms, reply \in AllReplies(DietResponses) :
       ClientCall("generate_diet_plan", PlanRequest(env, ProfileOfForm(f)),
                  reply, generate_diet_plan(reply))
  \/ \E f \in Forms, reply \in AllReplies(DietResponses) :
       ClientCall("call_backend_plan", UiPlanRequest(env, ProfileOfForm(f)),
                  reply, call_backend_plan(reply))
  \/ \E f \in Forms, reply \in AllReplies(ExerciseResponses) :
       ClientCall("generate_exercise_plan",
                  ExerciseRequest(env, ExercisePayload(ProfileOfForm(f))),
                  reply, generate_exercise_plan(reply))
  \/ \E f \in Forms, reply \in AllReplies(ProjectionResponses) :
       ClientCall("project_progress",
                  ProjectRequest(env, ProfileOfForm(f), PyNum(CALORIE_TARGET),
                                 PyNum(EXTRA_BURN), PyNum(WEEKS)),
                  reply, project_progress(reply))
  \/ \E reply \in AllReplies(SuggestResponses) :
       ClientCall("recipe_suggestions", SuggestRequest(env, <<"Onion">>),
                  reply, recipe_suggestions(reply))
  \/ \E reply \in AllReplies(DetailResponses) :
       ClientCall("recipe_detail", DetailRequest(env, "dal"),
                  reply, recipe_detail(reply))
  \/ \E reply \in AllReplies(VapiConfigs) :
       ClientCall("vapi_config",
                  Request("GET", "/v1/vapi/config", _session(env), <<>>,
                          HEALTH_TIMEOUT),
                  reply, vapi_config(reply))

ClientSpec == ClientInit /\ [][ClientNext]_vars

\* ----------------------------------------------- the single page (ui.py)
\* Every run of ui.py pings the backend for the sidebar and draws the form;
\* last.resp is the reply to that ping and last.req the requests of the run.
\* online = ping_backend(), as the sidebar of the last run shows it
Online(shown) == ui_ping_backend(shown.resp) = PyBool(TRUE)

\* faulty variant: the button is also disabled while the backend is offline
ButtonDisabledOffline(consent, online) == ~consent \/ ~online

\* st.button(..., disabled=not consent)
ButtonDisabled(consent, online) == ~consent

\* try: result = call_backend_plan(profile) / except requests.HTTPError /
\* except Exception / else: st.success, `res` being what the call returned
\* or raised
UiTry(res) ==
  IF Raised(res)
    THEN Shown("ui_generate", "", res.exc, None, "none", "error", "none")
  ELSE Shown("ui_generate", "", "ok", res.val, "none", "success", "none")

\* the page is opened, or a widget of the form is changed
PageRun ==
  /\ \E f \in Forms : form' = f
  /\ \E health \in Replies({PyDict(EmptyMap)}) :
       last' = Replied(Sent(Shown("page_run", "", "none", None, "none", "none",
                                  "none"),
                            <<UiHealthRequest>>),
                       health)
  /\ ss' = Put(ss, "agent_api_url_help", PyStr("http://localhost:8000"))
  /\ UNCHANGED <<fs, loads, env>>

\* "Generate my 7-day plan" of ui.py: the button is pressed on the page as
\* the last run drew it; the run it starts pings again, then calls the backend
UiGenerate ==
  /\ last.op \in {"page_run", "ui_generate"}
  /\ ~ButtonDisabled(form.consent, Online(last))
  /\ \E health \in Replies({PyDict(EmptyMap)}),
        res \in {call_backend_plan(r) : r \in Replies(DietResponses)} :
       last' = Replied(Sent(UiTry(res),
                            <<UiHealthRequest,
                              UiPlanRequest(env, ProfileOfForm(form))>>),
                       health)
  /\ ss' = Put(ss, "agent_api_url_help", PyStr("http://localhost:8000"))
  /\ UNCHANGED <<fs, loads, env, form>>

PageNext ==
  \/ PageRun
  \/ UiGenerate

PageSpec == ClientInit /\ [][PageNext]_vars

\* ------------------------------------------- the cache functions alone
\* _save_cache, _load_cache and the removal of an entry, called directly on
\* any name and any JSON value, with the cache directory starting in any of
\* the conditions a file can be found in.
CachePayloads ==
  {PyDict([targets |-> PyDict([calorie_target |-> PyNum(1684)]),
           plan_markdown |-> PyStr("diet plan A")]),
   PyDict([data |-> PyDict(EmptyMap)]),
   PyList(<<PyNum(1), PyStr("a"), PyList(<<>>), PyBool(TRUE)>>),
   None}

OneEntry == json_dumps(Envelope(PyDict([plan_markdown |-> PyStr("diet plan B")]), 1))

\* an entry cut at any point, with or without a piece of the next token
Truncated(text) ==
  {SubSeq(text, 1, k) \o tail : k \in 0..(Len(text) - 1), tail \in {<<>>, <<BadTok>>}}

\* documents that are JSON but no {"ts": .., "data": ..} object
OtherDocuments ==
  {json_dumps(x) : x \in {PyList(<<PyNum(1)>>), PyStr("data"), None,
                          PyDict(EmptyMap), PyDict([ts |-> PyNum(1)])}}

CacheStartFiles ==
  {NoFile, Directory, RegularFile(OneEntry)}
    \cup {RegularFile(t) : t \in Truncated(OneEntry) \cup OtherDocuments}

CacheInit ==
  /\ fs \in [Paths -> CacheStartFiles]
  /\ \E n \in CacheNames : fs[_cache_path(n)] \in {NoFile, RegularFile(OneEntry)}
  /\ ss = EmptyMap
  /\ loads = [n \in CacheNames |-> 0]
  /\ last = Shown("start", "", "none", None, "none", "none", "none")
  /\ env = [UI_API_KEY |-> None]
  /\ form = FormDefaults

CacheSave ==
  /\ \E n \in CacheNames, x \in CachePayloads, now \in Times :
       \E fault \in WriteFaults(x, now) :
         LET r == _save_cache(fs, n, x, now, fault) IN
         /\ fs' = r.files
         /\ last' = Shown("_save_cache", n, "none", x, r.exc, "none", r.exc)
  /\ UNCHANGED <<ss, loads>>
  /\ UNCHANGED <<env, form>>

CacheLoad ==
  /\ \E n \in CacheNames :
       LET r == _load_cache(fs, n) IN
       last' = Shown("_load_cache", n, "none", r.val, "none", "none", r.exc)
  /\ UNCHANGED <<fs, ss, loads>>
  /\ UNCHANGED <<env, form>>

CacheClear ==
  /\ \E n \in CacheNames :
       /\ fs' = RemoveCacheFile(fs, n)
       /\ last' = Shown("clear", n, "none", None, "none", "none", "none")
  /\ UNCHANGED <<ss, loads>>
  /\ UNCHANGED <<env, form>>

CacheNext ==
  \/ CacheSave
  \/ CacheLoad
  \/ CacheClear

CacheSpec == CacheInit /\ [][CacheNext]_vars

\* ------------------------------------------------------------ the claims
GenerateOps == {"diet_generate", "exercise_generate"}
ClearOps == {"diet_clear", "exercise_clear"}
FileOf(name) == fs[_cache_path(name)]
\* what load(name) returns now
Loaded(name) == _load_cache(fs, name)

\* C1: a save of X under a name that completes, followed by a load of that
\* name with nothing in between, returns data equal to X and raises nothing.
C1_SaveThenLoad ==
  (last.op = "_save_cache" /\ ~Raised(last))
    => Loaded(last.name) = [exc |-> "none", val |-> last.data]

\* a completed save of a nested object over an entry of the other name
C1_Witness ==
  /\ last.op = "_save_cache"
  /\ ~Raised(last)
  /\ last.name = "diet_result"
  /\ last.data.t = "dict"
  /\ "targets" \in DOMAIN last.data.v
  /\ FileOf("exercise_result").kind = "file"

\* C6: load(name) never raises, and it returns None when the entry does not
\* exist, cannot be opened, is cut short, is no JSON, or is JSON that is no
\* object with a "data" member.
NoEntry(f) ==
  \/ f.kind # "file"
  \/ Raised(json_loads(f.text))
  \/ json_loads(f.text).val.t # "dict"
  \/ "data" \notin DOMAIN json_loads(f.text).val.v

C6_LoadNeverRaises ==
  last.op = "_load_cache"
    => /\ ~Raised(last)
       /\ NoEntry(FileOf(last.name)) => last.data = None

\* a load of a file that holds a JSON list
C6_Witness ==
  /\ last.op = "_load_cache"
  /\ FileOf(last.name).kind = "file"
  /\ ~Raised(json_loads(FileOf(last.name).text))
  /\ json_loads(FileOf(last.name).text).val.t = "list"
  /\ last.data = None

\* C7: for distinct names a and b, save(a, X), completed or failed, leaves
\* the result of load(b) as it was.
C7_SaveLeavesOtherNames ==
  [][\A b \in CacheNames :
       (last'.op = "_save_cache" /\ last'.name # b)
         => _load_cache(fs', b) = _load_cache(fs, b)]_vars

\* a failed save under one name while the other name holds an entry
C7_Witness ==
  /\ last.op = "_save_cache"
  /\ Raised(last)
  /\ last.name = "diet_result"
  /\ FileOf("diet_result").kind = "file"
  /\ Loaded("diet_result").val = None
  /\ Loaded("exercise_result").val # None

\* C2: when the backend call behind a generate button fails (HTTP error
\* status, no connection, timeout, a body that is no JSON), the handler
\* changes neither the session state nor any cache file.
C2_FailedCallChangesNothing ==
  [][(last'.op \in GenerateOps /\ last'.call \in ExceptionClasses)
       => (ss' = ss /\ fs' = fs)]_vars

\* a failed call with the earlier plan still shown and still cached
C2_Witness ==
  /\ last.op = "diet_generate"
  /\ last.call = "HTTPError"
  /\ last.msg = "error"
  /\ ss["diet_result"] # None
  /\ Loaded("diet_result").val = ss["diet_result"]

\* C3: a save that fails after it has started leaves load(name) returning
\* what it returned before the save.
C3_FailedSaveKeepsPrevious ==
  [][(last'.op \in GenerateOps /\ last'.io \in ExceptionClasses)
       => _load_cache(fs', last'.name) = _load_cache(fs, last'.name)]_vars

\* C4: whenever the backend call of a handler fails, the handler ends with
\* an error message and no exception leaves it.
C4_CallFailuresCaughtAtAction ==
  last.call \in ExceptionClasses => (last.msg = "error" /\ last.exc = "none")

Timestamped(doc) ==
  /\ ~Raised(doc)
  /\ doc.val.t = "dict"
  /\ DOMAIN doc.val.v = {"ts", "data"}
  /\ doc.val.v["ts"].t = "num"

C10_CacheReadOncePerSession ==
  /\ [](\A n \in CacheNames : loads[n] <= 1 /\ (n \in DOMAIN ss <=> loads[n] = 1))
  /\ [][\A n \in CacheNames :
          (n \in DOMAIN ss /\ n \in DOMAIN ss' /\ ss'[n] # ss[n])
            => (last'.name = n /\ last'.op \in GenerateOps \cup ClearOps)]_vars

\* a rerun while the shown plan is not what the cache holds
C10_Witness ==
  /\ last.op = "render"
  /\ Rendered
  /\ ss["diet_result"] # None
  /\ Loaded("diet_result").val = None
  /\ loads["diet_result"] = 1

\* C11: ping_backend never raises, and returns True exactly when the GET
\* got a response whose status is 200; it returns False for every other
\* status, for a refused connection and for a timeout.
C11_HealthCheckTrueOn200Only ==
  last.op \in {"ping_backend", "ui_ping_backend"}
    => /\ last.exc = "none"
       /\ last.data \in {PyBool(TRUE), PyBool(FALSE)}
       /\ last.data = PyBool(TRUE)
            <=> (last.resp.net = "ok" /\ last.resp.status = 200)
       /\ Len(last.req) = 1
       /\ last.req[1].method = "GET"
       /\ last.req[1].path = "/health"
       /\ last.req[1].timeout = 10

\* the health check got a 204 and said False
C11_Witness ==
  /\ last.op = "ping_backend"
  /\ last.resp.net = "ok"
  /\ last.resp.status = 204
  /\ last.data = PyBool(FALSE)

JsonCalls ==
  {"generate_diet_plan", "call_backend_plan", "generate_exercise_plan",
   "project_progress", "recipe_suggestions", "recipe_detail", "vapi_config"}

\* C12: when UI_API_KEY is set, every request sent to the backend carries it
\* in the X-API-Key header.
C12_ApiKeyOnEveryCall ==
  Truthy(env.UI_API_KEY)
    => \A i \in 1..Len(last.req) :
         /\ "X-API-Key" \in DOMAIN last.req[i].headers
         /\ last.req[i].headers["X-API-Key"] = env.UI_API_KEY.v

BuiltPayload(op, s) ==
  IF op = "diet_generate" THEN build_profile_from_session(s)
  ELSE ExercisePayload(build_profile_from_session(s))

\* C14: a run in which a generate button was pressed has sent exactly one
\* request, a POST whose body parses to the payload built, whether the call
\* returned or raised; a run without a button or with a clear has sent none.
C14_OneRequestPerPress ==
  /\ last.op \in {"diet_generate", "exercise_generate"}
       => /\ Len(last.req) = 1
          /\ last.req[1].method = "POST"
          /\ json_loads(last.req[1].body)
               = [exc |-> "none", val |-> BuiltPayload(last.op, ss)]
  /\ last.op = "projection" => Len(last.req) = 1
  /\ last.op \in {"start", "render", "new_session", "diet_clear", "exercise_clear"}
       => Len(last.req) = 0

\* a generate whose call timed out has sent one request
C14_Witness ==
  /\ last.op = "diet_generate"
  /\ last.call = "Timeout"
  /\ Len(last.req) = 1
  /\ last.req[1].path = "/v1/plan"

\* the profile inside the request of a generate of the Action tab
SentProfile ==
  IF last.op = "diet_generate" THEN json_loads(last.req[1].body).val
  ELSE json_loads(last.req[1].body).val.v["profile"]

ProfileFields == DOMAIN ProfileOfForm(FormDefaults).v

\* C15: in the request of an Action-tab generate every field of the profile
\* has the value the Profile tab shows for it; the fallback default of
\* build_profile_from_session stands in only for a field the user left as
\* it was first shown.
C15_SentProfileIsEnteredProfile ==
  last.op \in {"diet_generate", "exercise_generate"}
    => \A k \in ProfileFields :
         \/ SentProfile.v[k] = ProfileOfForm(form).v[k]
         \/ /\ ProfileOfForm(form).v[k] = ProfileOfForm(FormDefaults).v[k]
            /\ SentProfile.v[k] = build_profile_from_session(EmptyMap).v[k]

\* what a multiselect with `selection` is sent as
WithoutNone(selection) ==
  IF Contains(selection, PyStr("none")) THEN PyList(<<>>) ELSE selection

\* C16: in the request of an Action-tab generate, diet is null when "none"
\* is selected and else the diet selected; allergies and medical_flags are
\* the empty list when the selection contains "none" and else the selection.
C16_NoneNeverSent ==
  last.op \in {"diet_generate", "exercise_generate"}
    => /\ SentProfile.v["diet"]
            = (IF form.diet = PyStr("none") THEN None ELSE form.diet)
       /\ SentProfile.v["allergies"] = WithoutNone(form.allergies)
       /\ SentProfile.v["medical_flags"] = WithoutNone(form.medical_flags)

Outcomes == {"ok", "HTTPError", "ConnectionError", "JSONDecodeError", "Timeout"}
Results == [n \in CacheNames \cup {"progress_projection"} |->
              IF n \in DOMAIN ss THEN ss[n] ELSE None]

C18_HealthCheckNeverGates ==
  /\ last.op \in {"page_run", "ui_generate"}
       => ((ENABLED UiGenerate) <=> form.consent)
  /\ last.op = "ui_generate"
       => /\ Len(last.req) = 2
          /\ last.req[2] = UiPlanRequest(env, ProfileOfForm(form))
          /\ last.call # "none"

\* a plan was returned in a run whose ping found the backend offline
C18_Witness ==
  /\ last.op = "ui_generate"
  /\ ~Online(last)
  /\ last.call = "ok"
  /\ last.req[2].path = "/v1/plan"

\* the interaction that ran last called _save_cache or removed the file of `name`
Touched(name) ==
  /\ last.name = name
  /\ \/ last.op \in {"diet_clear", "exercise_clear"}
     \/ last.op \in {"diet_generate", "exercise_generate"} /\ last.call = "ok"

\* C19: a step that is neither a save nor a clear of a name (a rerun, a new
\* session, a failed call, anything done to the other name) leaves what
\* _load_cache returns for that name as it was.
C19_EntryStaysUntilSaveOrClear ==
  [][\A n \in CacheNames :
       ~Touched(n)' => _load_cache(fs', n) = _load_cache(fs, n)]_vars

\* a new session finds the plan an earlier session stored
C19_Witness ==
  /\ last.op = "render"
  /\ loads["diet_result"] = 1
  /\ Loaded("diet_result").val \in DietResponses
  /\ ss["diet_result"] = Loaded("diet_result").val
  /\ fs[_cache_path("exercise_result")].kind = "absent"

\* C20: once render() has run, session_state[name] is what _load_cache(name)
\* returns, None where it returns nothing, after every interaction.
C20_SessionAgreesWithCache ==
  (Rendered /\ last.op \notin {"start", "new_session"})
    => \A n \in CacheNames : ss[n] = Loaded(n).val

\* C21: a generate that ends with the st.error message leaves
\* session_state[name] as it was before the click, also when the call
\* returned and only the cache write failed.
C21_ErrorMessageMeansOldResult ==
  [][(last'.op \in GenerateOps /\ last'.msg = "error")
       => ss'[last'.name] = ss[last'.name]]_vars

\* C22: a request with a profile in it is sent by a generate of the Action
\* tab only while the consent checkbox of the Profile tab is ticked.
C22_NoProfileSentWithoutConsent ==
  (last.op \in GenerateOps /\ Len(last.req) > 0) => form.consent

\* the other cached result
OtherName(name) ==
  IF name = "diet_result" THEN "exercise_result" ELSE "diet_result"

\* C23: a generate or clear of one result leaves the other result as it was,
\* in session state and in the cache; a projection leaves both results and
\* every cache file as they were.
C23_ResultsIndependent ==
  [][/\ last'.op \in GenerateOps \cup ClearOps
          => /\ ss'[OtherName(last'.name)] = ss[OtherName(last'.name)]
             /\ fs'[_cache_path(OtherName(last'.name))]
                  = fs[_cache_path(OtherName(last'.name))]
     /\ last'.op = "projection"
          => /\ fs' = fs
             /\ \A n \in CacheNames : ss'[n] = ss[n]]_vars

\* a diet plan was generated and stored while an exercise plan is held
C23_Witness ==
  /\ last.op = "diet_generate"
  /\ last.msg = "success"
  /\ ss["exercise_result"] \in ExerciseResponses
  /\ Loaded("exercise_result").val = ss["exercise_result"]

\* ---------------------------------------------------------------- C24
\* the three remembered values of the recipe section
RecipeState(s) ==
  <<recipe_ensure_state(s)["recipe_suggestions"],
    recipe_ensure_state(s)["recipe_selected"],
    recipe_ensure_state(s)["recipe_detail"]>>

\* a "Find dishes" press that fails, or has no ingredient, changes nothing;
\* with no ingredient nothing is sent, otherwise one request is
FindDishesFailureKeeps ==
  /\ last'.op = "find_dishes" /\ last'.call # "ok"
       => RecipeState(ss') = RecipeState(ss)
  /\ last'.op = "find_dishes"
       => Len(last'.req) = (IF last'.msg = "warning" THEN 0 ELSE 1)

C25_SelectedIndexValid ==
  RecipeState(ss)[2] # None
    => /\ RecipeState(ss)[2].t = "num"
       /\ RecipeState(ss)[1].t = "list"
       /\ RecipeState(ss)[2].v \in 0..(Len(RecipeState(ss)[1].v) - 1)

\* the second dish of a two-dish list is selected and its recipe fetched
C25_Witness ==
  /\ last.op = "get_recipe" /\ last.call = "ok"
  /\ RecipeState(ss)[2] = PyNum(1)
  /\ Len(RecipeState(ss)[1].v) = 2

\* ---------------------------------------------------------------- C26
\* the names "Get recipe" can ask for, given the list of s
DishNames(s) ==
  {Chosen(recipe_ensure_state(s), i - 1) :
     i \in 1..Len(recipe_ensure_state(s)["recipe_suggestions"].v)}

\* C26: a stored recipe detail belongs to the current suggestion list: while
\* the detail is not none the list is non-empty; a detail is stored only by
\* a fetch for a dish of the list on display; and a step that changes the
\* list (replacing or clearing it) leaves no detail
C26_DetailBelongsToList ==
  /\ [](RecipeState(ss)[3] # None => Truthy(RecipeState(ss)[1]))
  /\ [][/\ RecipeState(ss')[1] # RecipeState(ss)[1]
             => RecipeState(ss')[3] = None
        /\ (RecipeState(ss')[3] # RecipeState(ss)[3]
              /\ RecipeState(ss')[3] # None)
             => /\ last'.op = "get_recipe" /\ last'.call = "ok"
                /\ RecipeState(ss')[1] = RecipeState(ss)[1]
                /\ last'.name \in DishNames(ss')
                /\ RecipeState(ss')[3] = Or(last'.data, PyDict(EmptyMap))]_vars

\* the recipe of the dish without a name was fetched and is on display
C26_Witness ==
  /\ last.op = "get_recipe" /\ last.call = "ok"
  /\ last.name = "" /\ last.name \in DishNames(ss)
  /\ Truthy(RecipeState(ss)[3])

\* ------------------------------------------- the monitor tab (monitor.py)
\* Dates are day numbers, weights hundredths of a kilogram; a DataFrame is
\* the sequence of its rows.  The exercise schedule, the events and the
\* target weight are left out.

\* date.today()
Today == 100

\* _init_state(): the profile, the synthetic six-week history, the start
\* weight
monitor_init_state(s) ==
  LET s1 == SetDefault(s, "profile", PyDict(EmptyMap))
      current == 100 * Or(DictGet(s1["profile"], "weight_kg").val, PyNum(72)).v
      base == [i \in 1..6 |-> current + <<200, 130, 80, 30, -10, 0>>[i]]
      start == Today - 7 * (Len(base) - 1)
      s2 == SetDefault(s1, "weights",
                       [t |-> "frame",
                        v |-> [i \in 1..Len(base) |->
                                 [Date |-> start + 7 * (i - 1),
                                  Weight_kg |-> base[i]]]])
  IN SetDefault(s2, "start_weight_kg", PyNum(s2["weights"].v[1].Weight_kg))

\* DataFrame.drop_duplicates(subset=["Date"], keep="last")
drop_duplicates(rows) ==
  LET kept == {i \in 1..Len(rows) :
                 \A j \in (i + 1)..Len(rows) : rows[j].Date # rows[i].Date}
      F[i \in 0..Len(rows)] ==
        IF i = 0 THEN <<>>
        ELSE IF i \in kept THEN Append(F[i - 1], rows[i]) ELSE F[i - 1]
  IN F[Len(rows)]

\* DataFrame.sort_values("Date"): ascending
RECURSIVE sort_values(_)
sort_values(rows) ==
  IF Len(rows) = 0 THEN <<>>
  ELSE LET i == CHOOSE k \in 1..Len(rows) :
                  \A j \in 1..Len(rows) :
                    \/ rows[k].Date < rows[j].Date
                    \/ (rows[k].Date = rows[j].Date /\ k <= j)
       IN <<rows[i]>> \o sort_values(SubSeq(rows, 1, i - 1)
                                     \o SubSeq(rows, i + 1, Len(rows)))

\* "Add weight": concat, drop_duplicates, sort_values
AddWeightPressed(s, log_date, log_w) ==
  Put(s, "weights",
      [t |-> "frame",
       v |-> sort_values(drop_duplicates(
               Append(s["weights"].v,
                      [Date |-> log_date, Weight_kg |-> log_w])))])

\* st.metric("Current weight (kg)", f"{current:.1f}"), in tenths of a
\* kilogram: the last row of the log
current_metric(s) ==
  (s["weights"].v[Len(s["weights"].v)].Weight_kg + 5) \div 10

\* a run of render() with no button pressed
MonitorRender ==
  /\ ss' = monitor_init_state(ss)
  /\ last' = Shown("monitor_render", "", "none",
                   PyDict([shown |-> PyNum(current_metric(monitor_init_state(ss)))]),
                   "none", "none", "none")
  /\ UNCHANGED <<fs, loads, env, form>>

\* "Add weight" pressed: the metric is drawn (line 166) before the handler
\* runs (line 191), and the script is not run again after it
AddWeight ==
  /\ "weights" \in DOMAIN ss
  /\ \E log_date \in {Today - 7, Today - 3, Today, Today + 1},
        log_w \in {7000, 7134} :
       /\ ss' = AddWeightPressed(monitor_init_state(ss), log_date, log_w)
       /\ last' = Shown("add_weight", "", "none",
                        PyDict([shown |-> PyNum(current_metric(monitor_init_state(ss))),
                                Date |-> PyNum(log_date),
                                Weight_kg |-> PyNum(log_w)]),
                        "none", "success", "none")
  /\ UNCHANGED <<fs, loads, env, form>>

MonitorNext ==
  \/ MonitorRender
  \/ AddWeight
  \/ NewSession

MonitorSpec == ProfileInit /\ [][MonitorNext]_vars

\* ---------------------------------------------------------------- C27
\* the rows of the weight log
WeightLog == ss["weights"].v

\* one row per date, in ascending order of date
WeightLogSorted ==
  \A i \in 1..(Len(WeightLog) - 1) : WeightLog[i].Date < WeightLog[i + 1].Date

\* the date just logged has one row, holding the weight just logged
LoggedWeightKept ==
  last.op = "add_weight"
    => \E i \in 1..Len(WeightLog) :
         /\ WeightLog[i].Date = last.data.v["Date"].v
         /\ WeightLog[i].Weight_kg = last.data.v["Weight_kg"].v

\* the weight of the latest date of the log, as the metric formats it
LatestWeight ==
  LET i == CHOOSE k \in 1..Len(WeightLog) :
             \A j \in 1..Len(WeightLog) : WeightLog[j].Date <= WeightLog[k].Date
  IN (WeightLog[i].Weight_kg + 5) \div 10

\* C27: after any sequence of "Add weight" the log has at most one row per
\* date, in ascending order of date, with the most recently logged weight
\* for a repeated date; and the "current weight" on display is the weight
\* of the latest date of the log
C27_WeightLogAndCurrentWeight ==
  "weights" \in DOMAIN ss
    => /\ WeightLogSorted
       /\ LoggedWeightKept
       /\ last.data.v["shown"].v = LatestWeight

\* ---------------------------------------------------------------- C28
\* the config the backend returned has a non-empty value under both keys
BothCredentials(cfg) ==
  /\ cfg.t = "dict"
  /\ Truthy(DictGet(cfg, "public_key").val)
  /\ Truthy(DictGet(cfg, "assistant_id").val)

\* C28: "Send request" embeds the voice widget (and confirms "Request
\* prepared") only when the vapi config returned a non-empty public key and
\* a non-empty assistant id; when the config came back with either of them
\* empty or missing, an error message is shown instead
C28_WidgetOnlyWithCredentials ==
  last.op = "send_request"
    => /\ last.msg = "success"
            => (last.call = "ok" /\ BothCredentials(last.data))
       /\ (last.call = "ok" /\ ~BothCredentials(last.data))
            => last.msg = "error"
====
